---- MODULE Spec2Model ----
(***************************************************************************)
(* A model of the trading-agent presentation layer: the Streamlit session  *)
(* (streamlit_app.py), the Gradio handler (gradio_app.py) and the export   *)
(* helper (streamlit_utils.py).                                            *)
(*                                                                         *)
(* Python strings are sequences of one-character strings, so that          *)
(* emptiness, str() and the JSON escaping are computed, not assumed.       *)
(* A Python value is a record [t, s, n]: t is its type tag, s its          *)
(* characters (or, for a list, its items), n its number.  A mapping is a   *)
(* function to such values in which the value Absent stands for a key      *)
(* that is not in the mapping.                                             *)
(***************************************************************************)
EXTENDS Integers, Sequences, FiniteSets, TLC

\* Bounds of the model (not program constants).
MaxHistory == 2
MaxStopping == 1

----------------------------------------------------------------------------
(* Python values *)

Absent == [t |-> "absent", s |-> <<>>, n |-> 0]
NoneV == [t |-> "none", s |-> <<>>, n |-> 0]
StrV(s) == [t |-> "str", s |-> s, n |-> 0]
IntV(n) == [t |-> "int", s |-> <<>>, n |-> n]
ListV(l) == [t |-> "list", s |-> l, n |-> 0]

\* bool(v): Python truthiness.
Truthy(v) ==
  CASE v.t = "str" -> v.s /= <<>>
    [] v.t = "list" -> v.s /= <<>>
    [] v.t = "int" -> v.n /= 0
    [] OTHER -> FALSE

Digit(d) == <<"0", "1", "2", "3", "4", "5", "6", "7", "8", "9">>[d + 1]

RECURSIVE Digits(_)
Digits(n) == IF n < 10 THEN <<Digit(n)>> ELSE Digits(n \div 10) \o <<Digit(n % 10)>>

RECURSIVE ReprItems(_)
ReprItems(l) ==
  IF l = <<>> THEN <<>>
  ELSE <<"'", Head(l), "'">> \o (IF Len(l) > 1 THEN <<",", " ">> ELSE <<>>)
       \o ReprItems(Tail(l))

\* str(v)
PyStr(v) ==
  CASE v.t = "str" -> v.s
    [] v.t = "int" -> IF v.n < 0 THEN <<"-">> \o Digits(-v.n) ELSE Digits(v.n)
    [] v.t = "list" -> <<"[">> \o ReprItems(v.s) \o <<"]">>
    [] OTHER -> <<"N", "o", "n", "e">>

----------------------------------------------------------------------------
(* The report mapping returned by the external framework *)

\* The keys export_analysis_to_json copies, in the order of its loop.
ExportKeys ==
  <<"market_report", "sentiment_report", "news_report", "fundamentals_report",
    "investment_plan", "trader_investment_plan", "final_trade_decision">>

ExportKeySet == {ExportKeys[i] : i \in 1..Len(ExportKeys)}

\* The report keys whose section is guarded by  'k' in final_state and final_state[k].
TextKinds == ExportKeySet \cup {"risk_assessment"}

ReportKinds == TextKinds \cup {"debate_history"}

\* A key of the framework's state that is no report kind.
OtherKey == "company_of_interest"

StateKeys == ReportKinds \cup {OtherKey}

\*  'k' in final_state and final_state[k]
Has(final_state, k) == final_state[k] /= Absent /\ Truthy(final_state[k])

----------------------------------------------------------------------------
(* JSON text.  A document is the sequence of its top-level members; a      *)
(* string is written as its escaped characters (json.dumps) and read back  *)
(* by undoing the escapes (json.loads).  The empty sequence is the empty   *)
(* string "", which json.dumps never produces for a mapping.               *)

\* Mutant of JsonEscapeChar: the backslash is written unescaped.
JsonEscapeCharKeepsBackslash(c) ==
  CASE c = "\"" -> <<"\\", "\"">>
    [] c = "\n" -> <<"\\", "n">>
    [] OTHER -> <<c>>

\* json.dumps of one character of a string.
JsonEscapeChar(c) ==
  CASE c = "\"" -> <<"\\", "\"">>
    [] c = "\\" -> <<"\\", "\\">>
    [] c = "\n" -> <<"\\", "n">>
    [] OTHER -> <<c>>

RECURSIVE JsonEscape(_)
JsonEscape(s) ==
  IF s = <<>> THEN <<>> ELSE JsonEscapeChar(Head(s)) \o JsonEscape(Tail(s))

RECURSIVE JsonUnescape(_)
JsonUnescape(s) ==
  IF s = <<>> THEN <<>>
  ELSE IF Head(s) = "\\" /\ Len(s) > 1
       THEN <<IF s[2] = "n" THEN "\n" ELSE s[2]>> \o JsonUnescape(Tail(Tail(s)))
       ELSE <<Head(s)>> \o JsonUnescape(Tail(s))

JsonScalar(k, s) == [key |-> k, lit |-> JsonEscape(s), items |-> <<>>, members |-> <<>>]

JsonArray(k, l) ==
  [key |-> k, lit |-> <<>>, items |-> [i \in 1..Len(l) |-> JsonEscape(l[i])], members |-> <<>>]

JsonObject(k, m) ==
  [key |-> k, lit |-> <<>>, items |-> <<>>,
   members |-> [i \in 1..Len(m) |-> [key |-> m[i].key, lit |-> JsonEscape(m[i].val)]]]

\* json.dumps(export_data, indent=2)
JsonDumps(export_data) ==
  << JsonScalar("ticker", export_data.ticker),
     JsonScalar("trade_date", export_data.trade_date),
     JsonScalar("timestamp", export_data.timestamp),
     JsonScalar("decision", export_data.decision),
     JsonArray("selected_analysts", export_data.selected_analysts),
     JsonObject("final_state", export_data.final_state) >>

JsonMember(text, k) == text[CHOOSE i \in 1..Len(text) : text[i].key = k]

\* json.loads of an exported document; final_state comes back as a mapping over
\* StateKeys in which a key the document does not hold is Absent.
JsonLoads(text) ==
  LET fs == JsonMember(text, "final_state").members
      an == JsonMember(text, "selected_analysts").items
  IN [ticker |-> JsonUnescape(JsonMember(text, "ticker").lit),
      trade_date |-> JsonUnescape(JsonMember(text, "trade_date").lit),
      timestamp |-> JsonUnescape(JsonMember(text, "timestamp").lit),
      decision |-> JsonUnescape(JsonMember(text, "decision").lit),
      selected_analysts |-> [i \in 1..Len(an) |-> JsonUnescape(an[i])],
      final_state |->
        [k \in StateKeys |->
          IF \E i \in 1..Len(fs) : fs[i].key = k
          THEN StrV(JsonUnescape(fs[CHOOSE i \in 1..Len(fs) : fs[i].key = k].lit))
          ELSE Absent]]

----------------------------------------------------------------------------
(* Result bundles and export_analysis_to_json *)

BundleKeys ==
  {"ticker", "trade_date", "final_state", "decision", "timestamp", "selected_analysts"}

\* datetime.isoformat() of the instant n.
IsoFormat(n) == <<"T">> \o Digits(n)

\* Mutant of ExportedReports: a key is copied when it is present, empty or not.
RECURSIVE ExportedReportsOfPresentKeys(_, _)
ExportedReportsOfPresentKeys(final_state, i) ==
  IF i > Len(ExportKeys) THEN <<>>
  ELSE (IF final_state[ExportKeys[i]] /= Absent
        THEN <<[key |-> ExportKeys[i], val |-> PyStr(final_state[ExportKeys[i]])]>>
        ELSE <<>>)
       \o ExportedReportsOfPresentKeys(final_state, i + 1)

\* The loop of export_analysis_to_json over the keys from position i on.
RECURSIVE ExportedReports(_, _)
ExportedReports(final_state, i) ==
  IF i > Len(ExportKeys) THEN <<>>
  ELSE (IF Has(final_state, ExportKeys[i])
        THEN <<[key |-> ExportKeys[i], val |-> PyStr(final_state[ExportKeys[i]])]>>
        ELSE <<>>)
       \o ExportedReports(final_state, i + 1)

\* export_analysis_to_json: a missing field raises KeyError inside the try, and
\* the handler returns "".
export_analysis_to_json(analysis_result) ==
  IF ~(BundleKeys \subseteq analysis_result.keys) THEN <<>>
  ELSE JsonDumps([ticker |-> analysis_result.ticker,
                  trade_date |-> analysis_result.trade_date,
                  timestamp |-> IsoFormat(analysis_result.timestamp),
                  decision |-> PyStr(analysis_result.decision),
                  selected_analysts |-> analysis_result.selected_analysts,
                  final_state |-> ExportedReports(analysis_result.final_state, 1)])

----------------------------------------------------------------------------
(* display_analysis_results: what one call puts on the page *)

\* What the market-data service gives during one rendering: info is the result
\* of stock.info (a mapping, a mapping whose numbers are None, or an error), price
\* and volume the result of stock.history (rows, no rows, or an error).
MarketOutcomes ==
  [info : {"info", "null_fields", "failed"}, price : {"data", "empty", "failed"},
   volume : {"data", "empty", "failed"}]

MarketUp == [info |-> "info", price |-> "data", volume |-> "data"]
MarketDown == [info |-> "failed", price |-> "failed", volume |-> "empty"]

\* Mutant of get_stock_info: the error of the fetch is not caught.
get_stock_info_uncaught(outcome) ==
  [value |-> IF outcome = "failed" THEN "empty" ELSE outcome, messages |-> {},
   raised |-> outcome = "failed"]

\* get_stock_info: the mapping, or {} with an error message when the fetch raised.
get_stock_info(outcome) ==
  IF outcome = "failed"
  THEN [value |-> "empty", messages |-> {"error: stock info"}, raised |-> FALSE]
  ELSE [value |-> outcome, messages |-> {}, raised |-> FALSE]

\* create_metrics_dashboard on a mapping whose market_cap is None: format_currency
\* compares None with a number (TypeError).
MetricsRaise(stock_info) == stock_info = "null_fields"

\* Mutant of create_stock_chart: no data is reported as the failure is.
create_stock_chart_empty_is_error(outcome) ==
  IF outcome = "data" THEN [value |-> "figure", messages |-> {}, raised |-> FALSE]
  ELSE [value |-> "none", messages |-> {"error: stock chart"}, raised |-> FALSE]

\* create_stock_chart: the figure, or None with a warning (no rows) or an error
\* message (the fetch raised).
create_stock_chart(outcome) ==
  CASE outcome = "data" -> [value |-> "figure", messages |-> {}, raised |-> FALSE]
    [] outcome = "empty" ->
         [value |-> "none", messages |-> {"warning: no data"}, raised |-> FALSE]
    [] OTHER -> [value |-> "none", messages |-> {"error: stock chart"}, raised |-> FALSE]

\* create_volume_chart: the figure, or None, with an error message when the fetch
\* raised.
create_volume_chart(outcome) ==
  CASE outcome = "data" -> [value |-> "figure", messages |-> {}, raised |-> FALSE]
    [] outcome = "empty" -> [value |-> "none", messages |-> {}, raised |-> FALSE]
    [] OTHER -> [value |-> "none", messages |-> {"error: volume chart"}, raised |-> FALSE]

\* f"{x:.2f}" of a number that is not negative, given in hundredths.
TwoDecimals(hundredths) ==
  Digits(hundredths \div 100) \o <<".", Digit((hundredths % 100) \div 10), Digit(hundredths % 10)>>

\* f"{n:.2f}" of an integer that is not negative.
WholeDecimals(n) == Digits(n) \o <<".", "0", "0">>

\* round(value / unit, 2) in hundredths, for a unit of 10^3, 10^6 or 10^9; half
\* says how the division's floating-point result falls when value / unit lies
\* halfway between two hundredths.
Hundredths(value, unit, half) ==
  LET step == unit \div 100
      q == value \div step
      r == value % step
  IN IF 2 * r > step \/ (2 * r = step /\ half = "up") THEN q + 1 ELSE q

Thousand == 1000
Million == 1000000
Billion == 1000000000

\* Mutant of format_currency: a value equal to a threshold takes the smaller unit.
format_currency_above_threshold(value, half) ==
  IF value > Billion THEN <<"$">> \o TwoDecimals(Hundredths(value, Billion, half)) \o <<"B">>
  ELSE IF value > Million THEN <<"$">> \o TwoDecimals(Hundredths(value, Million, half)) \o <<"M">>
  ELSE IF value > Thousand THEN <<"$">> \o TwoDecimals(Hundredths(value, Thousand, half)) \o <<"K">>
  ELSE IF value < 0 THEN <<"$", "-">> \o WholeDecimals(-value)
  ELSE <<"$">> \o WholeDecimals(value)

\* format_currency on an integer.
format_currency(value, half) ==
  IF value >= Billion THEN <<"$">> \o TwoDecimals(Hundredths(value, Billion, half)) \o <<"B">>
  ELSE IF value >= Million THEN <<"$">> \o TwoDecimals(Hundredths(value, Million, half)) \o <<"M">>
  ELSE IF value >= Thousand THEN <<"$">> \o TwoDecimals(Hundredths(value, Thousand, half)) \o <<"K">>
  ELSE IF value < 0 THEN <<"$", "-">> \o WholeDecimals(-value)
  ELSE <<"$">> \o WholeDecimals(value)

\* format_percentage on an integer.
format_percentage(value) ==
  (IF value < 0 THEN <<"-">> ELSE <<>>)
  \o WholeDecimals(IF value < 0 THEN -value ELSE value) \o <<"%">>

\* The view of one call.  rendered: the call drew something; error: it raised;
\* value, currency and percentage: a number given to the two formatters and
\* what they returned;
\* sections: the report kinds whose section it drew; metrics, price_drawn and
\* volume_drawn: the market elements it drew; price_chart and volume_chart: what
\* the chart helpers returned to it; messages: the messages the helpers put on
\* the page; market: what the market-data service gave; json: the export of the
\* Export tab (line 505); bundle: the bundle it was given.
BlankView ==
  [rendered |-> FALSE, error |-> FALSE, sections |-> {}, json |-> <<>>, bundle |-> <<>>,
   decision_color |-> "none", market |-> MarketUp, metrics |-> FALSE,
   price_chart |-> "uncalled", volume_chart |-> "uncalled",
   price_drawn |-> FALSE, volume_drawn |-> FALSE, messages |-> {},
   value |-> 0, currency |-> <<>>, percentage |-> <<>>]

\* str.lower() on the letters A-Z; every other character is kept.
UpperLetters ==
  <<"A", "B", "C", "D", "E", "F", "G", "H", "I", "J", "K", "L", "M",
    "N", "O", "P", "Q", "R", "S", "T", "U", "V", "W", "X", "Y", "Z">>
LowerLetters ==
  <<"a", "b", "c", "d", "e", "f", "g", "h", "i", "j", "k", "l", "m",
    "n", "o", "p", "q", "r", "s", "t", "u", "v", "w", "x", "y", "z">>

LowerChar(c) ==
  IF \E i \in 1..Len(UpperLetters) : UpperLetters[i] = c
  THEN LowerLetters[CHOOSE i \in 1..Len(UpperLetters) : UpperLetters[i] = c]
  ELSE c

Lower(s) == [i \in 1..Len(s) |-> LowerChar(s[i])]

\* sub in s
Contains(s, sub) ==
  \E i \in 1..(Len(s) - Len(sub) + 1) : SubSeq(s, i, i + Len(sub) - 1) = sub

Buy == <<"b", "u", "y">>
Sell == <<"s", "e", "l", "l">>

\* Mutant of decision_color: "sell" is looked for before "buy".
decision_color_sell_first(decision) ==
  IF ~Truthy(decision) THEN "none"
  ELSE IF Contains(Lower(PyStr(decision)), Sell) THEN "red"
  ELSE IF Contains(Lower(PyStr(decision)), Buy) THEN "green"
  ELSE "gray"

\* Lines 374-377: the colour of the decision box; "none" when the decision is
\* falsy and no box is drawn.
decision_color(decision) ==
  IF ~Truthy(decision) THEN "none"
  ELSE IF Contains(Lower(PyStr(decision)), Buy) THEN "green"
  ELSE IF Contains(Lower(PyStr(decision)), Sell) THEN "red"
  ELSE "gray"

AnalystTabSections(final_state) ==
  {k \in {"market_report", "sentiment_report", "news_report", "fundamentals_report"} :
     Has(final_state, k)}

\* Tab 3.  The debate section is guarded by  'debate_history' in final_state  alone.
DebateTabSections(final_state) ==
  {k \in {"investment_plan"} : Has(final_state, k)}
  \cup {k \in {"debate_history"} : final_state[k] /= Absent}

\* enumerate(final_state['debate_history'], 1) raises TypeError on a value that
\* is not iterable.
DebateRaises(final_state) == final_state["debate_history"].t \in {"none", "int"}

TradingTabSections(final_state) ==
  {k \in {"trader_investment_plan", "final_trade_decision"} : Has(final_state, k)}

RiskTabSections(final_state) ==
  {k \in {"risk_assessment"} : Has(final_state, k)}

display_analysis_results(analysis_result, market) ==
  IF analysis_result.keys = {} THEN BlankView
  ELSE IF ~(BundleKeys \subseteq analysis_result.keys)
  THEN [BlankView EXCEPT !.rendered = TRUE, !.error = TRUE, !.bundle = <<analysis_result>>,
                         !.market = market]
  ELSE
    LET final_state == analysis_result.final_state
        stock_info == get_stock_info(market.info)
        price == create_stock_chart(market.price)
        volume == create_volume_chart(market.volume)
        tab1 == [BlankView EXCEPT !.rendered = TRUE, !.bundle = <<analysis_result>>,
                                  !.market = market, !.messages = stock_info.messages]
        tab3 == [tab1 EXCEPT !.metrics = stock_info.value /= "empty",
                             !.decision_color = decision_color(analysis_result.decision),
                             !.sections = AnalystTabSections(final_state)
                                          \cup DebateTabSections(final_state)]
    IN IF stock_info.raised \/ MetricsRaise(stock_info.value)
       THEN [tab1 EXCEPT !.error = TRUE]
       ELSE IF DebateRaises(final_state)
       THEN [tab3 EXCEPT !.error = TRUE]
       ELSE IF price.raised \/ volume.raised
       THEN [tab3 EXCEPT !.error = TRUE,
                         !.sections = @ \cup TradingTabSections(final_state)
                                        \cup RiskTabSections(final_state),
                         !.messages = @ \cup price.messages]
       ELSE [tab3 EXCEPT !.sections = @ \cup TradingTabSections(final_state)
                                        \cup RiskTabSections(final_state),
                         !.price_chart = price.value,
                         !.volume_chart = volume.value,
                         !.price_drawn = price.value = "figure",
                         !.volume_drawn = volume.value = "figure",
                         !.messages = @ \cup price.messages \cup volume.messages,
                         !.json = export_analysis_to_json(analysis_result)]

----------------------------------------------------------------------------
(* Inputs: what the user can enter and what the external framework can     *)
(* return.                                                                 *)

NVDA == <<"N", "V", "D", "A">>

\* st.text_input(...).upper(): the ticker box can be left empty.
Tickers == {<<>>, NVDA}

\* str(trade_date) as run_analysis receives it; the empty string is an input of
\* run_analysis that the date widget of main never produces.
TradeDates == {<<>>, <<"2024-11-17">>}

\* The analyst multiselect of the sidebar (gradio: the checkbox group).
AnalystChoices == {<< <<"market">> >>, << <<"market">>, <<"news">> >>}

\* Texts of the framework: one with characters that JSON escapes.
PlainText == <<"o", "k">>
QuotedText == <<"\"", "a", "\\", "\n">>

BuyDecision == StrV(<<"B", "U", "Y">>)
HoldDecision == StrV(<<"H", "O", "L", "D">>)
Decisions == {BuyDecision, HoldDecision}

\* Every kind populated, one debate round, and a key that is no report kind.
FullState ==
  [k \in StateKeys |->
     IF k = "debate_history" THEN ListV(<<"round">>)
     ELSE IF k = "market_report" THEN StrV(QuotedText)
     ELSE StrV(PlainText)]

\* A sparse mapping: empty, None and absent entries, an empty debate history.
SparseState ==
  [k \in StateKeys |->
     CASE k = "market_report" -> StrV(PlainText)
       [] k = "sentiment_report" -> StrV(<<>>)
       [] k = "news_report" -> NoneV
       [] k = "risk_assessment" -> StrV(PlainText)
       [] k = "debate_history" -> ListV(<<>>)
       [] OTHER -> Absent]

\* A mapping whose debate history is None.
NoDebateState ==
  [k \in StateKeys |->
     CASE k = "final_trade_decision" -> StrV(PlainText)
       [] k = "debate_history" -> NoneV
       [] OTHER -> Absent]

FinalStates == {FullState, SparseState, NoDebateState}

\* What propagate can return: (final_state, decision).
FrameworkResults == {<<FullState, BuyDecision>>, <<SparseState, HoldDecision>>}

\* str(e) of an error raised by the framework.
FrameworkErrors == {<<"rate limit">>}

\* str(e) of the TypeError raised by calling the stub class of lines 39-40 with
\* keyword arguments.
StubError == <<"TradingAgentsGraph() takes no arguments">>

\* Sidebar choices that reach the configuration.
Providers == {"openai", "anthropic"}
StockVendors == {"alpha_vantage"}

\* DEFAULT_CONFIG of the framework; {} (every setting unset) when the import failed.
DEFAULT_CONFIG(avail) ==
  IF avail THEN [llm_provider |-> "openai", core_stock_apis |-> "yfinance"]
  ELSE [llm_provider |-> "unset", core_stock_apis |-> "unset"]

----------------------------------------------------------------------------
(* State *)

VARIABLES
  app,               \* which UI process runs: "streamlit" or "gradio"
  available,         \* TRADINGAGENTS_AVAILABLE / TRADING_AGENTS_AVAILABLE
  keys,              \* the keys present in st.session_state
  analysis_history,  \* st.session_state.analysis_history
  current_analysis,  \* st.session_state.current_analysis: <<>> is None, else <<bundle>>
  analysis_running,  \* st.session_state.analysis_running
  config,            \* st.session_state.config
  cur,               \* the session's current script run
  stopping,          \* the number of stopped script runs still inside a call of the framework
  ended,             \* how the framework call of the last stopped run ended
  view,              \* what display_analysis_results put on the page in this run
  gradio,            \* the last result of run_trading_analysis
  launcher,          \* the launcher process of run_streamlit.py
  multi              \* two sessions of one Streamlit process and the objects they share

vars ==
  <<app, available, keys, analysis_history, current_analysis, analysis_running,
    config, cur, stopping, ended, view, gradio, launcher, multi>>

\* The state outside the two UI processes.
aux == <<launcher, multi>>

session == <<keys, analysis_history, current_analysis, analysis_running, config>>

NoneBundle == <<>>

\* The process before any session exists (no objects, no sessions).
NoSessions == [heap |-> <<>>, sessions |-> <<>>, actor |-> "none"]

\* The launcher before it is started: modules are the importable module names,
\* env the variables that are set once load_dotenv has run, app_exists whether
\* streamlit_app.py is in the working directory; requirements and environment
\* are the results of the two checks, missing what they reported, port the port
\* given to the server (0: none) and exit_code that of sys.exit (-1: none).
LauncherIdle ==
  [pc |-> "none", modules |-> {}, env |-> {}, app_exists |-> FALSE,
   requirements |-> "unchecked", environment |-> "unchecked",
   missing_packages |-> <<>>, missing_vars |-> <<>>,
   server_started |-> FALSE, port |-> 0, exit_code |-> -1]

\* A script run: pc is the segment it executes next (or the framework call it is
\* inside), event what the user did to start it.  h0 and c0 record the history and
\* the current analysis at the submission; outcome and error what it reported,
\* result what propagate returned to it.
NoRun ==
  [pc |-> "none", event |-> "none", ticker |-> <<>>, trade_date |-> <<>>,
   selected_analysts |-> <<>>, h0 |-> <<>>, c0 |-> <<>>,
   outcome |-> "none", error |-> <<>>, result |-> <<>>]

NewRun(e) == [NoRun EXCEPT !.pc = "init", !.event = e]

GradioIdle ==
  [called |-> FALSE, ticker |-> <<>>, constructed |-> FALSE, propagated |-> FALSE,
   raised |-> <<>>, final_state |-> [k \in StateKeys |-> Absent],
   summary |-> [kind |-> "none", text |-> <<>>],
   detailed_reports |-> <<>>, trading_info |-> <<>>]

Init ==
  /\ app \in {"streamlit", "gradio"}
  /\ available \in BOOLEAN
  /\ keys = {}
  /\ analysis_history = <<>>
  /\ current_analysis = NoneBundle
  /\ analysis_running = FALSE
  /\ config = DEFAULT_CONFIG(FALSE)
  /\ cur = IF app = "streamlit" THEN NewRun("rerun") ELSE NoRun
  /\ stopping = 0
  /\ ended = "none"
  /\ view = BlankView
  /\ gradio = GradioIdle
  /\ launcher = LauncherIdle
  /\ multi = NoSessions

----------------------------------------------------------------------------
(* The Streamlit script run (main).  A run executes the script in segments *)
(* that each start at an st.* call, where Streamlit stops a run it has     *)
(* asked to stop, and end at the next call of the framework or st.* call   *)
(* that follows a write of the session state.                              *)

SessionKeys == {"analysis_history", "current_analysis", "analysis_running", "config"}

InFramework(pc) == pc \in {"construct", "propagate"}

\* initialize_session_state: each key is set only when it is absent.
\* Mutant of Initialize: an absent flag is initialized to True.
InitializeFlagSet ==
  /\ app = "streamlit"
  /\ cur.pc = "init"
  /\ keys' = keys \cup SessionKeys
  /\ analysis_history' = IF "analysis_history" \in keys THEN analysis_history ELSE <<>>
  /\ current_analysis' = IF "current_analysis" \in keys THEN current_analysis ELSE NoneBundle
  /\ analysis_running' = IF "analysis_running" \in keys THEN analysis_running ELSE TRUE
  /\ config' = IF "config" \in keys THEN config ELSE DEFAULT_CONFIG(available)
  /\ cur' = [cur EXCEPT !.pc = "sidebar"]
  /\ UNCHANGED <<aux, app, available, stopping, ended, view, gradio>>

\* Mutant of Initialize: every key is set, present or not.
InitializeResets ==
  /\ app = "streamlit"
  /\ cur.pc = "init"
  /\ keys' = keys \cup SessionKeys
  /\ analysis_history' = <<>>
  /\ current_analysis' = NoneBundle
  /\ analysis_running' = FALSE
  /\ config' = DEFAULT_CONFIG(available)
  /\ cur' = [cur EXCEPT !.pc = "sidebar"]
  /\ UNCHANGED <<aux, app, available, stopping, ended, view, gradio>>

Initialize ==
  /\ app = "streamlit"
  /\ cur.pc = "init"
  /\ keys' = keys \cup SessionKeys
  /\ analysis_history' = IF "analysis_history" \in keys THEN analysis_history ELSE <<>>
  /\ current_analysis' = IF "current_analysis" \in keys THEN current_analysis ELSE NoneBundle
  /\ analysis_running' = IF "analysis_running" \in keys THEN analysis_running ELSE FALSE
  /\ config' = IF "config" \in keys THEN config ELSE DEFAULT_CONFIG(available)
  /\ cur' = [cur EXCEPT !.pc = "sidebar"]
  /\ UNCHANGED <<aux, app, available, stopping, ended, view, gradio>>

\* create_sidebar: the widgets' values are written into the configuration and
\* the analyst selection is returned.
CreateSidebar(llm_provider, core_stock_vendor, selected_analysts) ==
  /\ app = "streamlit"
  /\ cur.pc = "sidebar"
  /\ config' = [config EXCEPT !.llm_provider = llm_provider,
                              !.core_stock_apis = core_stock_vendor]
  /\ cur' = [cur EXCEPT !.pc = "form", !.selected_analysts = selected_analysts]
  /\ UNCHANGED <<aux, app, available, keys, analysis_history, current_analysis,
                 analysis_running, stopping, ended, view, gradio>>

\* main, lines 594-615, when the form was not submitted in this run.
FormNotSubmitted ==
  /\ app = "streamlit"
  /\ cur.pc = "form"
  /\ cur.event /= "submit"
  /\ cur' = [cur EXCEPT !.pc = "render"]
  /\ UNCHANGED <<aux, app, available, session, stopping, ended, view, gradio>>

\* Mutant of InputsValid: the ticker is not checked.
InputsValidDateOnly(ticker, trade_date) == trade_date /= <<>>

\* run_analysis, line 295:  not ticker or not trade_date  is false.
InputsValid(ticker, trade_date) == ticker /= <<>> /\ trade_date /= <<>>

\* main, lines 594-597 with run_analysis up to its call of the framework.  The
\* flag is set and the inputs are validated; invalid inputs are reported and the
\* flag is cleared (lines 296-297, 597).  Otherwise the constructor of line 309
\* is called: that of the framework, which the run enters, or, when the import
\* failed, the stub class of lines 39-40, whose TypeError the handler of lines
\* 339-342 reports at once as a failed analysis.
Submit(ticker, trade_date) ==
  /\ app = "streamlit"
  /\ cur.pc = "form"
  /\ cur.event = "submit"
  /\ LET run == [cur EXCEPT !.ticker = ticker, !.trade_date = trade_date,
                            !.h0 = analysis_history, !.c0 = current_analysis]
     IN IF ~InputsValid(ticker, trade_date)
        THEN /\ analysis_running' = FALSE
             /\ cur' = [run EXCEPT !.pc = "render", !.outcome = "InvalidInput"]
        ELSE IF available
        THEN /\ analysis_running' = TRUE
             /\ cur' = [run EXCEPT !.pc = "construct"]
        ELSE /\ analysis_running' = FALSE
             /\ cur' = [run EXCEPT !.pc = "render", !.outcome = "AnalysisFailed",
                                   !.error = StubError]
  /\ UNCHANGED <<aux, app, available, keys, analysis_history, current_analysis, config,
                 stopping, ended, view, gradio>>

\* TradingAgentsGraph(...) returns (lines 309-316); propagate is entered.
ConstructReturns ==
  /\ app = "streamlit"
  /\ cur.pc = "construct"
  /\ cur' = [cur EXCEPT !.pc = "propagate"]
  /\ UNCHANGED <<aux, app, available, session, stopping, ended, view, gradio>>

\* The handler of lines 339-342 and line 597: the failure is reported with the
\* error's text, None is returned and the flag is cleared.
AnalysisFailed(err) ==
  /\ analysis_running' = FALSE
  /\ cur' = [cur EXCEPT !.pc = "render", !.outcome = "AnalysisFailed", !.error = err]
  /\ UNCHANGED <<aux, app, available, keys, analysis_history, current_analysis, config,
                 stopping, ended, view, gradio>>

ConstructRaises(err) ==
  /\ app = "streamlit"
  /\ cur.pc = "construct"
  /\ err \in FrameworkErrors
  /\ AnalysisFailed(err)

PropagateRaises(err) ==
  /\ app = "streamlit"
  /\ cur.pc = "propagate"
  /\ err \in FrameworkErrors
  /\ AnalysisFailed(err)

\* datetime.datetime.now(): the clock, read as the number of the result.
Now == Len(analysis_history) + 1

\* The bundle of lines 325-332.
AnalysisResult(final_state, decision) ==
  [keys |-> BundleKeys, ticker |-> cur.ticker, trade_date |-> cur.trade_date,
   final_state |-> final_state, decision |-> decision, timestamp |-> Now,
   selected_analysts |-> cur.selected_analysts]

\* Mutant of PropagateReturns: the bundle is appended but not made current.
PropagateReturnsNotCurrent(final_state, decision) ==
  /\ app = "streamlit"
  /\ cur.pc = "propagate"
  /\ Len(analysis_history) < MaxHistory
  /\ analysis_history' = Append(analysis_history, AnalysisResult(final_state, decision))
  /\ analysis_running' = FALSE
  /\ cur' = [cur EXCEPT !.pc = "success", !.outcome = "Success",
                        !.result = <<final_state, decision>>]
  /\ UNCHANGED <<aux, app, available, keys, current_analysis, config, stopping, ended,
                 view, gradio>>

\* propagate returns (lines 319-337, 597): the bundle is appended to the history,
\* made current, and the flag is cleared.
PropagateReturns(final_state, decision) ==
  /\ app = "streamlit"
  /\ cur.pc = "propagate"
  /\ Len(analysis_history) < MaxHistory
  /\ analysis_history' = Append(analysis_history, AnalysisResult(final_state, decision))
  /\ current_analysis' = <<AnalysisResult(final_state, decision)>>
  /\ analysis_running' = FALSE
  /\ cur' = [cur EXCEPT !.pc = "success", !.outcome = "Success",
                        !.result = <<final_state, decision>>]
  /\ UNCHANGED <<aux, app, available, keys, config, stopping, ended, view, gradio>>

\* Lines 599-601: st.success and st.rerun(), which starts the script again.
Success ==
  /\ app = "streamlit"
  /\ cur.pc = "success"
  /\ cur' = NewRun("rerun")
  /\ view' = BlankView
  /\ UNCHANGED <<aux, app, available, session, stopping, ended, gradio>>

\* The market outcomes met by the renderings of a session.
SessionMarkets == {MarketUp, MarketDown}

\* Lines 603-610.  An error raised by display_analysis_results ends the run.
Render ==
  /\ app = "streamlit"
  /\ cur.pc = "render"
  /\ \E market \in SessionMarkets :
       view' = IF current_analysis /= NoneBundle
               THEN display_analysis_results(current_analysis[1], market)
               ELSE BlankView
  /\ cur' = IF view'.error THEN NoRun ELSE [cur EXCEPT !.pc = "history"]
  /\ UNCHANGED <<aux, app, available, session, stopping, ended, gradio>>

\* Mutant of ViewHistory: a re-stamped copy of the selected entry is made current.
ViewHistoryRestamps ==
  /\ app = "streamlit"
  /\ cur.pc = "history"
  /\ IF analysis_history /= <<>> /\ cur.event = "view"
     THEN \E selected_analysis \in 1..Len(analysis_history) :
            current_analysis' = <<[analysis_history[selected_analysis] EXCEPT !.timestamp = 0]>>
     ELSE current_analysis' = current_analysis
  /\ cur' = NoRun
  /\ UNCHANGED <<aux, app, available, keys, analysis_history, analysis_running, config,
                 stopping, ended, view, gradio>>

\* Mutant of ViewHistory: the selected entry is moved to the end of the history.
ViewHistoryReorders ==
  /\ app = "streamlit"
  /\ cur.pc = "history"
  /\ IF analysis_history /= <<>> /\ cur.event = "view"
     THEN \E selected_analysis \in 1..Len(analysis_history) :
            /\ current_analysis' = <<analysis_history[selected_analysis]>>
            /\ analysis_history' =
                 Append(SelectSeq(analysis_history,
                                  LAMBDA b : b /= analysis_history[selected_analysis]),
                        analysis_history[selected_analysis])
     ELSE UNCHANGED <<current_analysis, analysis_history>>
  /\ cur' = NoRun
  /\ UNCHANGED <<aux, app, available, keys, analysis_running, config,
                 stopping, ended, view, gradio>>

\* display_analysis_history (lines 612-615): the View Selected Analysis button
\* makes the selected entry current.
ViewHistory ==
  /\ app = "streamlit"
  /\ cur.pc = "history"
  /\ IF analysis_history /= <<>> /\ cur.event = "view"
     THEN \E selected_analysis \in 1..Len(analysis_history) :
            current_analysis' = <<analysis_history[selected_analysis]>>
     ELSE current_analysis' = current_analysis
  /\ cur' = NoRun
  /\ UNCHANGED <<aux, app, available, keys, analysis_history, analysis_running, config,
                 stopping, ended, view, gradio>>

----------------------------------------------------------------------------
(* The Streamlit runtime around the script.  A user event asks the running *)
(* script to stop and starts the next run at once (runner.fastReruns); the *)
(* stopped run ends at its next st.* call, so one that is inside a call of *)
(* the framework goes on until that call ends.  ScriptControlException is  *)
(* a BaseException: the handler of run_analysis does not catch it.         *)

UserEvents == {"rerun", "submit", "view", "stop"}

UserEvent(e) ==
  /\ app = "streamlit"
  /\ keys /= {}
  /\ e = "stop" => cur.pc /= "none"
  /\ e = "view" => analysis_history /= <<>>
  /\ IF InFramework(cur.pc)
     THEN /\ stopping < MaxStopping
          /\ stopping' = stopping + 1
     ELSE stopping' = stopping
  /\ cur' = IF e = "stop" THEN NoRun ELSE NewRun(e)
  /\ view' = IF e = "stop" THEN view ELSE BlankView
  /\ UNCHANGED <<aux, app, available, session, ended, gradio>>

\* The framework call of a stopped run ends: it returns or raises.  The run then
\* ends at the st.* call that follows (line 315 or 321, or line 340 in the
\* handler), so that lines 334-335 and line 597 are not reached.
StoppedCallEnds(how) ==
  /\ app = "streamlit"
  /\ stopping > 0
  /\ stopping' = stopping - 1
  /\ ended' = how
  /\ UNCHANGED <<aux, app, available, session, cur, view, gradio>>

----------------------------------------------------------------------------
(* The Gradio handler run_trading_analysis.  It keeps no state: the model  *)
(* records its last call and the triple it returned.  An empty string of   *)
(* the triple is the empty sequence of sections.                           *)

\* How the framework behaves during one call of the handler: the constructor
\* raises, propagate raises, or propagate returns (final_state, decision).
FrameworkBehaviours ==
  {[raises |-> at, err |-> e, final_state |-> [k \in StateKeys |-> Absent],
    decision |-> HoldDecision] : at \in {"construct", "propagate"}, e \in FrameworkErrors}
  \cup {[raises |-> "none", err |-> <<>>, final_state |-> r[1], decision |-> r[2]] :
          r \in FrameworkResults}

\* Lines 54-64: the reports of the second output.
GradioReports(final_state) ==
  SelectSeq(<<"market_report", "sentiment_report", "news_report", "fundamentals_report">>,
            LAMBDA k : Has(final_state, k))

\* Lines 67-73: the sections of the third output.
GradioTrading(final_state) ==
  SelectSeq(<<"investment_plan", "trader_investment_plan", "final_trade_decision">>,
            LAMBDA k : Has(final_state, k))

run_trading_analysis(ticker, date_str, selected_analysts, ext) ==
  LET call == [GradioIdle EXCEPT !.called = TRUE, !.ticker = ticker] IN
  IF ~available
  THEN [call EXCEPT !.summary = [kind |-> "unavailable", text |-> <<>>]]
  ELSE IF ticker = <<>>
  THEN [call EXCEPT !.summary = [kind |-> "invalid", text |-> <<>>]]
  ELSE IF ext.raises = "construct"
  THEN [call EXCEPT !.constructed = TRUE, !.raised = ext.err,
                    !.summary = [kind |-> "failed", text |-> ext.err]]
  ELSE IF ext.raises = "propagate"
  THEN [call EXCEPT !.constructed = TRUE, !.propagated = TRUE, !.raised = ext.err,
                    !.summary = [kind |-> "failed", text |-> ext.err]]
  ELSE [call EXCEPT !.constructed = TRUE, !.propagated = TRUE,
                    !.final_state = ext.final_state,
                    !.summary = [kind |-> "decision", text |-> PyStr(ext.decision)],
                    !.detailed_reports = GradioReports(ext.final_state),
                    !.trading_info = GradioTrading(ext.final_state)]

GradioRun(ticker, date_str, selected_analysts, ext) ==
  /\ app = "gradio"
  /\ gradio' = run_trading_analysis(ticker, date_str, selected_analysts, ext)
  /\ UNCHANGED <<aux, app, available, session, cur, stopping, ended, view>>

----------------------------------------------------------------------------

Next ==
  \/ Initialize
  \/ \E p \in Providers, v \in StockVendors, a \in AnalystChoices : CreateSidebar(p, v, a)
  \/ FormNotSubmitted
  \/ \E t \in Tickers, d \in TradeDates : Submit(t, d)
  \/ ConstructReturns
  \/ \E e \in FrameworkErrors : ConstructRaises(e)
  \/ \E e \in FrameworkErrors : PropagateRaises(e)
  \/ \E r \in FrameworkResults : PropagateReturns(r[1], r[2])
  \/ Success
  \/ Render
  \/ ViewHistory
  \/ \E e \in UserEvents : UserEvent(e)
  \/ \E how \in {"returned", "raised"} : StoppedCallEnds(how)
  \/ \E t \in Tickers, d \in TradeDates, a \in AnalystChoices, x \in FrameworkBehaviours :
       GradioRun(t, d, a, x)

Spec == Init /\ [][Next]_vars

----------------------------------------------------------------------------
(* Properties of the session and of the two handlers *)

\* The number of calls of the framework that are executing in the session.
InFlight == (IF InFramework(cur.pc) THEN 1 ELSE 0) + stopping

\* A run that has handled a submission (it is past line 596).
Submitted == cur.event = "submit" /\ cur.pc \notin {"none", "init", "sidebar", "form"}

IsPrefix(s, t) == Len(s) <= Len(t) /\ SubSeq(t, 1, Len(s)) = s

\* C1: at most one analysis is in flight in the session at a time: a submission
\* made while another call of the framework is still executing does not enter the
\* framework.
C1_OneAnalysisInFlight == InFlight <= 1

\* C2: the flag does not stay set once the invocation has ended: in no state is
\* analysis_running true while no call of the framework is executing.
C2_FlagClearedOnEveryExit == InFlight = 0 => ~analysis_running

\* C3: once run_analysis has returned a bundle, the history is the history of the
\* submission extended by exactly that bundle (the inputs as submitted, the
\* final_state and decision as returned), the bundle is current, and the flag is
\* false.
C3_SuccessStoresBundle ==
  cur.pc = "success" =>
    LET b == analysis_history[Len(analysis_history)] IN
      /\ Len(analysis_history) = Len(cur.h0) + 1
      /\ IsPrefix(cur.h0, analysis_history)
      /\ b.keys = BundleKeys
      /\ b.ticker = cur.ticker
      /\ b.trade_date = cur.trade_date
      /\ b.selected_analysts = cur.selected_analysts
      /\ <<b.final_state, b.decision>> = cur.result
      /\ current_analysis = <<b>>
      /\ ~analysis_running

C3_Witness ==
  /\ cur.pc = "success"
  /\ Len(analysis_history) = 2
  /\ cur.result = <<SparseState, HoldDecision>>

\* C4: when the constructor or propagate raised, a failure with the error's text
\* is reported, history and current analysis are those of the submission, and the
\* flag is false once no other call is executing; gradio returns
\* (failure message, "", "").
C4_FailureLeavesSessionClean ==
  /\ cur.outcome = "AnalysisFailed" =>
       /\ cur.error \in FrameworkErrors \cup {StubError}
       /\ analysis_history = cur.h0
       /\ current_analysis = cur.c0
       /\ ~analysis_running
  /\ (ended = "raised" /\ InFlight = 0) => ~analysis_running
  /\ gradio.raised /= <<>> =>
       /\ gradio.summary = [kind |-> "failed", text |-> gradio.raised]
       /\ gradio.detailed_reports = <<>>
       /\ gradio.trading_info = <<>>

\* C5 as stated: an empty ticker (streamlit: or an empty date) gives the
\* invalid-input outcome, the framework is not called, and history and current
\* analysis are unchanged.
C5_InvalidInputAsStated ==
  /\ (Submitted /\ (cur.ticker = <<>> \/ cur.trade_date = <<>>)) =>
       /\ cur.outcome = "InvalidInput"
       /\ cur.pc \in {"render", "history"}
       /\ analysis_history = cur.h0
       /\ current_analysis = cur.c0
  /\ (gradio.called /\ gradio.ticker = <<>>) =>
       /\ gradio.summary.kind = "invalid"
       /\ ~gradio.constructed /\ ~gradio.propagated

\* C5 amended: as stated for streamlit; in gradio an empty ticker gives the
\* invalid-input outcome when the framework is available and the unavailable
\* outcome otherwise (that check comes first), and the framework is not called in
\* either case.
C5_InvalidInputNeverInvokes ==
  /\ (Submitted /\ (cur.ticker = <<>> \/ cur.trade_date = <<>>)) =>
       /\ cur.outcome = "InvalidInput"
       /\ cur.pc \in {"render", "history"}
       /\ analysis_history = cur.h0
       /\ current_analysis = cur.c0
  /\ (gradio.called /\ gradio.ticker = <<>>) =>
       /\ gradio.summary.kind = IF available THEN "invalid" ELSE "unavailable"
       /\ ~gradio.constructed /\ ~gradio.propagated
       /\ gradio.detailed_reports = <<>> /\ gradio.trading_info = <<>>

C5_Witness ==
  /\ Submitted
  /\ cur.ticker = <<>>
  /\ cur.trade_date /= <<>>
  /\ cur.outcome = "InvalidInput"
  /\ Len(analysis_history) = 1

\* C6: every step leaves the history a prefix of the new history, and the only
\* step that extends it is the return of propagate to the current run, which
\* appends one entry.
C6_HistoryAppendOnly ==
  [][/\ IsPrefix(analysis_history, analysis_history')
     /\ analysis_history' /= analysis_history =>
          /\ cur.pc = "propagate" /\ cur'.pc = "success"
          /\ Len(analysis_history') = Len(analysis_history) + 1]_vars

C6_Witness ==
  /\ Len(analysis_history) = 2
  /\ current_analysis = <<analysis_history[1]>>
  /\ analysis_history[1] /= analysis_history[2]
  /\ cur.pc = "none"

\* C7: when the import of the framework failed, no submission enters the
\* framework's constructor or propagate, and the UI reports the unavailable state
\* rather than a failed analysis.
C7_UnavailableNeverInvokes ==
  ~available =>
    /\ InFlight = 0
    /\ cur.error /= StubError
    /\ cur.outcome /= "AnalysisFailed"
    /\ ~gradio.constructed
    /\ gradio.called => gradio.summary.kind = "unavailable"

\* C8: display_analysis_results raises no error and draws the section of a
\* report kind exactly when the kind's value is present and non-empty.
C8_SectionIffPopulated ==
  view.rendered =>
    /\ ~view.error
    /\ \A k \in ReportKinds :
         k \in view.sections <=> Has(view.bundle[1].final_state, k)

----------------------------------------------------------------------------
(* The helpers as functions: export_analysis_to_json and                   *)
(* display_analysis_results applied to a bundle drawn from a bounded set.  *)
(* The bundle under test is held in current_analysis, the result in view.  *)

\* Report mappings: every exported kind absent, empty or populated, one of them
\* also None or a number, and the keys that are not exported absent or populated.
HelperStates ==
  {[k \in StateKeys |->
      CASE k = "market_report" -> m
        [] k = "sentiment_report" -> s
        [] k = "news_report" -> n
        [] k = "fundamentals_report" -> f
        [] k = "investment_plan" -> i
        [] k = "trader_investment_plan" -> t
        [] k = "final_trade_decision" -> d
        [] k = "risk_assessment" -> r
        [] k = "debate_history" -> h
        [] OTHER -> o] :
     m \in {Absent, NoneV, StrV(<<>>), StrV(QuotedText), IntV(0), IntV(7)},
     s \in {Absent, StrV(<<>>), StrV(PlainText)},
     n \in {Absent, StrV(<<>>), StrV(QuotedText)},
     f \in {Absent, StrV(PlainText)},
     i \in {Absent, StrV(PlainText)},
     t \in {Absent, StrV(PlainText)},
     d \in {Absent, StrV(QuotedText)},
     r \in {Absent, StrV(PlainText)},
     h \in {Absent, NoneV, ListV(<<>>), ListV(<<"round">>)},
     o \in {Absent, StrV(PlainText)}}

HelperBundle(final_state) ==
  [keys |-> BundleKeys, ticker |-> NVDA, trade_date |-> <<"2024-11-17">>,
   final_state |-> final_state, decision |-> BuyDecision, timestamp |-> 1,
   selected_analysts |-> << <<"market">>, <<"news">> >>]

\* Bundles that lack one field, and the empty mapping.
IncompleteBundles ==
  {[HelperBundle(FullState) EXCEPT !.keys = BundleKeys \ {f}] : f \in BundleKeys}
  \cup {[HelperBundle(FullState) EXCEPT !.keys = {}]}

\* Decision texts: up to three words put together, and values that are no text.
DecisionWords ==
  {<<>>, <<"B", "u", "y">>, <<"b", "u", "y">>, <<"B", "U", "Y">>, <<"S", "E", "L", "L">>,
   <<"s", "e", "l", "l">>, <<"S", "t", "r", "o", "n", "g", " ">>, <<" ", "N", "O", "W">>,
   <<"H", "o", "l", "d">>, <<"b", "u">>, <<"y">>, <<"s", "e", "l">>, <<" ">>}

ClassifierDecisions ==
  {StrV(a \o b \o c) : a \in DecisionWords, b \in DecisionWords, c \in DecisionWords}
  \cup {NoneV, IntV(0), IntV(7)}

\* The bundles rendered under every market outcome.
MarketBundles == {HelperBundle(FullState), HelperBundle(SparseState), HelperBundle(NoDebateState)}

ClassifierBundles ==
  {[HelperBundle(SparseState) EXCEPT !.decision = d] : d \in ClassifierDecisions}

InitHelpers ==
  /\ app = "helpers"
  /\ available = TRUE
  /\ keys = SessionKeys
  /\ current_analysis \in
       {<<HelperBundle(fs)>> : fs \in HelperStates}
       \cup {<<b>> : b \in IncompleteBundles \cup ClassifierBundles \cup MarketBundles}
  /\ analysis_history = current_analysis
  /\ analysis_running \in BOOLEAN
  /\ config = DEFAULT_CONFIG(available)
  /\ cur = [NoRun EXCEPT !.pc = "call"]
  /\ stopping = 0
  /\ ended = "none"
  /\ view = BlankView
  /\ gradio = GradioIdle
  /\ launcher = LauncherIdle
  /\ multi = NoSessions

\* Mutant of ExportCall: the reports of the bundle given are replaced by the
\* strings that are exported.
ExportCallCoercesBundle ==
  /\ app = "helpers"
  /\ cur.pc = "call"
  /\ view' = [BlankView EXCEPT !.json = export_analysis_to_json(current_analysis[1]),
                               !.bundle = current_analysis]
  /\ cur' = [cur EXCEPT !.pc = "exported"]
  /\ current_analysis' =
       <<[current_analysis[1] EXCEPT !.final_state =
            [k \in StateKeys |-> IF Has(@, k) THEN StrV(PyStr(@[k])) ELSE @[k]]]>>
  /\ UNCHANGED <<aux, app, available, keys, analysis_history, analysis_running, config,
                 stopping, ended, gradio>>

\* json_data = export_analysis_to_json(analysis_result)
ExportCall ==
  /\ app = "helpers"
  /\ cur.pc = "call"
  /\ view' = [BlankView EXCEPT !.json = export_analysis_to_json(current_analysis[1]),
                               !.bundle = current_analysis]
  /\ cur' = [cur EXCEPT !.pc = "exported"]
  /\ UNCHANGED <<aux, app, available, session, stopping, ended, gradio>>

\* display_analysis_results(analysis_result)
DisplayCall ==
  /\ app = "helpers"
  /\ cur.pc = "call"
  /\ \E market \in (IF current_analysis[1] \in MarketBundles
                     THEN MarketOutcomes ELSE {MarketUp}) :
       view' = display_analysis_results(current_analysis[1], market)
  /\ cur' = [cur EXCEPT !.pc = "displayed"]
  /\ UNCHANGED <<aux, app, available, session, stopping, ended, gradio>>

\* The integers given to the formatters: around each threshold, halfway cases,
\* negative numbers and the largest magnitudes.
FormatValues ==
  {-1500000, -1500, -1, 0, 7, 999, 1000, 1004, 1005, 1006, 1125, 1375, 2500, 999994, 999995,
   999999, 1000000, 1005000, 1500000, 999994999, 999995000, 999999999, 1000000000,
   1500000000, 2147483647}

\* format_currency(value) and format_percentage(value), as the metrics dashboard
\* calls them for the bundle's ticker.
FormatCall(value, half) ==
  /\ app = "helpers"
  /\ cur.pc = "call"
  /\ current_analysis = <<HelperBundle(FullState)>>
  /\ view' = [BlankView EXCEPT !.bundle = current_analysis, !.value = value,
                               !.currency = format_currency(value, half),
                               !.percentage = format_percentage(value)]
  /\ cur' = [cur EXCEPT !.pc = "formatted"]
  /\ UNCHANGED <<aux, app, available, session, stopping, ended, gradio>>

NextHelpers ==
  \/ ExportCall
  \/ DisplayCall
  \/ \E value \in FormatValues, half \in {"down", "up"} : FormatCall(value, half)

SpecHelpers == InitHelpers /\ [][NextHelpers]_vars

\* The populated kinds of a report mapping among the kinds ks.
Populated(final_state, ks) == {k \in ks : Has(final_state, k)}

\* The keys a parsed document holds in its final_state.
ParsedKeys(parsed) == {k \in StateKeys : parsed.final_state[k] /= Absent}

\* C9 as stated: the final_state parsed from an exported document holds exactly
\* the report kinds that are populated in the source bundle, each with the
\* string of its value.
C9_RoundTripAsStated ==
  view.json /= <<>> =>
    LET parsed == JsonLoads(view.json)
        source == view.bundle[1].final_state
    IN /\ ParsedKeys(parsed) = Populated(source, ReportKinds)
       /\ \A k \in ParsedKeys(parsed) : parsed.final_state[k] = StrV(PyStr(source[k]))

\* C9 amended: the final_state parsed from an exported document holds exactly the
\* populated kinds among the seven exported keys, each with the string of its
\* value, which for a string value is the identical string; risk_assessment and
\* debate_history are not in the document.
C9_RoundTripOfExportedKinds ==
  view.json /= <<>> =>
    LET parsed == JsonLoads(view.json)
        source == view.bundle[1].final_state
    IN /\ ParsedKeys(parsed) = Populated(source, ExportKeySet)
       /\ \A k \in ParsedKeys(parsed) :
            /\ parsed.final_state[k] = StrV(PyStr(source[k]))
            /\ source[k].t = "str" => parsed.final_state[k] = source[k]

C9_Witness ==
  /\ cur.pc = "exported"
  /\ view.json /= <<>>
  /\ view.bundle[1].final_state["market_report"] = StrV(QuotedText)
  /\ view.bundle[1].final_state["sentiment_report"] = StrV(<<>>)
  /\ JsonLoads(view.json).final_state["market_report"] = StrV(QuotedText)

\* C10: every member of an exported document's final_state is one of the seven
\* keys, populated in the source, with str() of the source value; every populated
\* key of the seven is a member, once; and the export of a bundle that lacks a
\* field is the empty string.
C10_ExportRestrictedToSevenKeys ==
  cur.pc = "exported" =>
    LET source == view.bundle[1] IN
    IF ~(BundleKeys \subseteq source.keys) THEN view.json = <<>>
    ELSE /\ view.json /= <<>>
         /\ LET m == JsonMember(view.json, "final_state").members IN
            /\ \A i \in 1..Len(m) :
                 /\ m[i].key \in ExportKeySet
                 /\ Has(source.final_state, m[i].key)
                 /\ JsonUnescape(m[i].lit) = PyStr(source.final_state[m[i].key])
            /\ \A k \in Populated(source.final_state, ExportKeySet) :
                 Cardinality({i \in 1..Len(m) : m[i].key = k}) = 1

C10_Witness ==
  /\ cur.pc = "exported"
  /\ view.json /= <<>>
  /\ view.bundle[1].final_state[OtherKey] /= Absent
  /\ view.bundle[1].final_state["risk_assessment"] = StrV(PlainText)
  /\ view.bundle[1].final_state["market_report"] = IntV(7)
  /\ view.bundle[1].final_state["news_report"] = StrV(<<>>)
  /\ Len(JsonMember(view.json, "final_state").members) = 1

\* The decision text the classifier of a rendered bundle read.
DecisionText == Lower(PyStr(view.bundle[1].decision))

\* The displayed view is that of a bundle with a decision that is not empty, in a
\* rendering that reached line 373.
DecisionDrawn ==
  /\ cur.pc = "displayed"
  /\ view.rendered
  /\ view.market.info /= "null_fields"
  /\ BundleKeys \subseteq view.bundle[1].keys
  /\ Truthy(view.bundle[1].decision)

\* C11 as stated: every decision that contains "buy" is green, every decision
\* that contains "sell" is red, and every other non-empty decision is gray.
C11_ClassifierAsStated ==
  DecisionDrawn =>
    /\ Contains(DecisionText, Buy) => view.decision_color = "green"
    /\ Contains(DecisionText, Sell) => view.decision_color = "red"
    /\ ~Contains(DecisionText, Buy) /\ ~Contains(DecisionText, Sell)
         => view.decision_color = "gray"

\* C11 amended: exactly one class is assigned to a non-empty decision: green iff
\* the lower-cased text contains "buy", red iff it contains "sell" and not
\* "buy", gray iff it contains neither; an empty decision draws no box.
C11_ClassifierBuyFirst ==
  /\ DecisionDrawn =>
        /\ view.decision_color \in {"green", "red", "gray"}
        /\ view.decision_color = "green" <=> Contains(DecisionText, Buy)
        /\ view.decision_color = "red"
             <=> Contains(DecisionText, Sell) /\ ~Contains(DecisionText, Buy)
  /\ cur.pc = "displayed" /\ ~DecisionDrawn => view.decision_color = "none"

C11_Witness ==
  /\ DecisionDrawn
  /\ view.bundle[1].decision = StrV(<<"S", "E", "L", "L", " ", "N", "O", "W">>)
  /\ view.decision_color = "red"

----------------------------------------------------------------------------
(* The launcher run_streamlit.py *)

\* required_packages of check_requirements, a name being its pieces.
required_packages ==
  << <<"streamlit">>, <<"plotly">>, <<"pandas">>, <<"yfinance">>, <<"python", "-", "dotenv">> >>

required_env_vars == <<"OPENAI_API_KEY", "ALPHA_VANTAGE_API_KEY">>

\* --server.port
ServerPort == 8501

\* package.replace('-', '_')
ModuleName(package) == [i \in 1..Len(package) |-> IF package[i] = "-" THEN "_" ELSE package[i]]

\* The module each distribution installs: python-dotenv installs dotenv.
InstalledModule(package) == IF package = <<"python", "-", "dotenv">> THEN <<"dotenv">> ELSE package

\* Environments of the launcher: any of the distributions installed, possibly a
\* stray module named python_dotenv on the path.
ModuleSets ==
  {{InstalledModule(required_packages[i]) : i \in I} \cup stray :
     I \in SUBSET (1..Len(required_packages)),
     stray \in {{}, {<<"python", "_", "dotenv">>}}}

\* Lines 25-31: the packages whose __import__ raises ImportError.
MissingPackages(modules) ==
  SelectSeq(required_packages, LAMBDA package : ModuleName(package) \notin modules)

\* Lines 46-50.
MissingVars(env) == SelectSeq(required_env_vars, LAMBDA var : var \notin env)

InitLauncher ==
  /\ app = "launcher"
  /\ available \in BOOLEAN
  /\ keys = {}
  /\ analysis_history = <<>>
  /\ current_analysis = NoneBundle
  /\ analysis_running = FALSE
  /\ config = DEFAULT_CONFIG(FALSE)
  /\ cur = NoRun
  /\ stopping = 0
  /\ ended = "none"
  /\ view = BlankView
  /\ gradio = GradioIdle
  /\ multi = NoSessions
  /\ \E m \in ModuleSets, e \in SUBSET {"OPENAI_API_KEY", "ALPHA_VANTAGE_API_KEY"},
        x \in BOOLEAN :
       launcher = [LauncherIdle EXCEPT !.pc = "start", !.modules = m, !.env = e,
                                       !.app_exists = x]

LauncherExit(code) == [launcher EXCEPT !.pc = "exited", !.exit_code = code]

\* Line 13 and lines 60-75: the import of dotenv, then the working directory.
LauncherStart ==
  /\ app = "launcher"
  /\ launcher.pc = "start"
  /\ launcher' = IF <<"dotenv">> \notin launcher.modules \/ ~launcher.app_exists
                 THEN LauncherExit(1)
                 ELSE [launcher EXCEPT !.pc = "requirements"]
  /\ UNCHANGED <<multi, app, available, session, cur, stopping, ended, view, gradio>>

\* Mutant of CheckRequirements: missing packages are reported and the launcher
\* goes on.
CheckRequirementsGoesOn ==
  /\ app = "launcher"
  /\ launcher.pc = "requirements"
  /\ LET missing == MissingPackages(launcher.modules) IN
     launcher' = [launcher EXCEPT !.requirements = IF missing = <<>> THEN "passed" ELSE "failed",
                                  !.missing_packages = missing, !.pc = "environment"]
  /\ UNCHANGED <<multi, app, available, session, cur, stopping, ended, view, gradio>>

\* Lines 78-81 with check_requirements.
CheckRequirements ==
  /\ app = "launcher"
  /\ launcher.pc = "requirements"
  /\ LET missing == MissingPackages(launcher.modules) IN
     launcher' = IF missing /= <<>>
                 THEN [LauncherExit(1) EXCEPT !.requirements = "failed",
                                              !.missing_packages = missing]
                 ELSE [launcher EXCEPT !.requirements = "passed", !.pc = "environment"]
  /\ UNCHANGED <<multi, app, available, session, cur, stopping, ended, view, gradio>>

\* Lines 84-89 with check_env_setup.
CheckEnvSetup ==
  /\ app = "launcher"
  /\ launcher.pc = "environment"
  /\ LET missing == MissingVars(launcher.env) IN
     launcher' = [launcher EXCEPT !.environment = IF missing = <<>> THEN "passed" ELSE "failed",
                                  !.missing_vars = missing, !.pc = "server"]
  /\ UNCHANGED <<multi, app, available, session, cur, stopping, ended, view, gradio>>

\* Lines 97-103: subprocess.run starts the server and waits for it.
StartServer ==
  /\ app = "launcher"
  /\ launcher.pc = "server"
  /\ launcher' = [launcher EXCEPT !.pc = "running", !.server_started = TRUE,
                                  !.port = ServerPort]
  /\ UNCHANGED <<multi, app, available, session, cur, stopping, ended, view, gradio>>

\* Lines 103-111: the server process ends, is interrupted, or fails.
ServerEnds(how) ==
  /\ app = "launcher"
  /\ launcher.pc = "running"
  /\ launcher' = LauncherExit(IF how = "failed" THEN 1 ELSE 0)
  /\ UNCHANGED <<multi, app, available, session, cur, stopping, ended, view, gradio>>

NextLauncher ==
  \/ LauncherStart
  \/ CheckRequirements
  \/ CheckEnvSetup
  \/ StartServer
  \/ \E how \in {"returned", "interrupted", "failed"} : ServerEnds(how)

SpecLauncher == InitLauncher /\ [][NextLauncher]_vars

\* C12: a launcher whose requirements check or environment check failed has not
\* exited without starting the server, and a started server has port 8501.
C12_ChecksAreNonFatal ==
  /\ (launcher.requirements = "failed" \/ launcher.environment = "failed")
       /\ launcher.pc = "exited" => launcher.server_started
  /\ launcher.server_started => launcher.port = ServerPort

----------------------------------------------------------------------------
(* The market-data helpers inside a rendering *)

\* The view is that of a rendering of a bundle with all its fields.
RenderedBundle == view.rendered /\ BundleKeys \subseteq view.bundle[1].keys

\* The rendering got as far as the charts tab.
ChartsCalled == RenderedBundle /\ view.price_chart /= "uncalled"

\* C13: when get_stock_info failed the metrics are omitted, when a chart helper
\* failed or found no data its chart is omitted, and in each of these cases every
\* tab is rendered: the sections drawn are those of the bundle, the export is
\* offered, and the only error is that of a debate history that cannot be
\* iterated.
C13_HelperFailureNeverAborts ==
  RenderedBundle /\ view.market.info /= "null_fields" =>
    LET final_state == view.bundle[1].final_state IN
    /\ view.metrics <=> view.market.info = "info"
    /\ view.error <=> DebateRaises(final_state)
    /\ AnalystTabSections(final_state) \cup DebateTabSections(final_state) \subseteq view.sections
    /\ ~view.error =>
         /\ view.sections = AnalystTabSections(final_state) \cup DebateTabSections(final_state)
                            \cup TradingTabSections(final_state) \cup RiskTabSections(final_state)
         /\ view.price_drawn <=> view.market.price = "data"
         /\ view.volume_drawn <=> view.market.volume = "data"
         /\ view.json = export_analysis_to_json(view.bundle[1])
         /\ view.json /= <<>>

C13_Witness ==
  /\ RenderedBundle
  /\ view.bundle[1] = HelperBundle(FullState)
  /\ view.market = [info |-> "failed", price |-> "empty", volume |-> "failed"]
  /\ ~view.error /\ ~view.metrics /\ ~view.price_drawn
  /\ "risk_assessment" \in view.sections

\* C14 as stated: the value a price-history helper returns to its caller when
\* there is no data differs from the one it returns when the fetch failed, and the
\* caller draws nothing and reports no error in the no-data case.
C14_DistinguishableToCaller ==
  ChartsCalled =>
    /\ view.market.price = "empty" =>
         /\ view.price_chart /= create_stock_chart("failed").value
         /\ ~view.price_drawn /\ "error: stock chart" \notin view.messages
    /\ view.market.volume = "empty" =>
         /\ view.volume_chart /= create_volume_chart("failed").value
         /\ ~view.volume_drawn /\ "error: volume chart" \notin view.messages

\* C14 amended: both outcomes return None to the caller, which draws nothing in
\* either; they differ in the message the helper itself puts on the page: an error
\* message when the fetch failed, a warning (price chart) or nothing (volume chart)
\* when there is no data.
C14_DistinguishedByMessageOnly ==
  ChartsCalled =>
    /\ view.market.price \in {"empty", "failed"} =>
         /\ view.price_chart = "none" /\ ~view.price_drawn
         /\ "error: stock chart" \in view.messages <=> view.market.price = "failed"
         /\ "warning: no data" \in view.messages <=> view.market.price = "empty"
    /\ view.market.volume \in {"empty", "failed"} =>
         /\ view.volume_chart = "none" /\ ~view.volume_drawn
         /\ "error: volume chart" \in view.messages <=> view.market.volume = "failed"

C14_Witness ==
  /\ ChartsCalled
  /\ view.market.price = "empty" /\ view.market.volume = "failed"
  /\ view.price_chart = "none" /\ view.volume_chart = "none"
  /\ view.messages = {"warning: no data", "error: volume chart"}

----------------------------------------------------------------------------
(* Initialization of the session state *)

\* A step of initialize_session_state.
InitializeStep == cur.pc = "init" /\ cur'.pc = "sidebar"

\* C15: the first initialize_session_state of a session leaves the history empty,
\* the current analysis None, the flag false and the configuration equal to the
\* framework's default configuration.
C15_FirstInitialization ==
  [][InitializeStep /\ keys = {} =>
       /\ keys' = SessionKeys
       /\ analysis_history' = <<>>
       /\ current_analysis' = NoneBundle
       /\ analysis_running' = FALSE
       /\ config' = DEFAULT_CONFIG(available)]_vars

C15_Witness ==
  /\ cur.pc = "sidebar" /\ cur.event = "rerun"
  /\ available
  /\ keys = SessionKeys
  /\ analysis_history = <<>> /\ current_analysis = NoneBundle /\ ~analysis_running
  /\ config = DEFAULT_CONFIG(TRUE)

\* C17: initialize_session_state runs at the start of every script run, and every
\* call after the first leaves the keys, the history, the current analysis, the
\* flag and the configuration as they were.
C17_ReinitializationIsNoOp ==
  [][InitializeStep /\ keys /= {} => UNCHANGED session]_vars

C17_Witness ==
  /\ cur.pc = "sidebar"
  /\ Len(analysis_history) = 2
  /\ current_analysis = <<analysis_history[1]>>
  /\ config.llm_provider = "anthropic"
  /\ analysis_running

----------------------------------------------------------------------------
(* Two sessions of one Streamlit process.  The module object DEFAULT_CONFIG *)
(* and its nested data_vendors mapping are shared by every session and     *)
(* script run; dictionaries are objects of a heap, so that a copy and an   *)
(* alias differ.  Each session has its own st.session_state.               *)

Sessions == {"s1", "s2"}

\* Objects: DEFAULT_CONFIG (DefaultRef) and its data_vendors (DefaultVendorsRef), each session's
\* configuration and the data_vendors mapping its sidebar made last, and the
\* configuration of a call of the Gradio handler.
DefaultRef == <<"config", "default">>
DefaultVendorsRef == <<"data_vendors", "default">>
NoRef == <<"none", "none">>
Top(s) == <<"config", s>>
Nested(s) == <<"data_vendors", s>>
GradioTop == <<"config", "gradio">>
Objects == {DefaultRef, DefaultVendorsRef, GradioTop} \cup {Top(s) : s \in Sessions} \cup {Nested(s) : s \in Sessions}

\* A dictionary: a configuration holds llm_provider, deep_think_llm and a
\* reference to its data_vendors; a data_vendors mapping holds core_stock_apis.
Unallocated ==
  [llm_provider |-> "unset", deep_think_llm |-> "unset", data_vendors |-> NoRef,
   core_stock_apis |-> "unset"]
DefaultTop ==
  [Unallocated EXCEPT !.llm_provider = DEFAULT_CONFIG(TRUE).llm_provider,
                      !.deep_think_llm = "o4-mini", !.data_vendors = DefaultVendorsRef]
DefaultNested == [Unallocated EXCEPT !.core_stock_apis = DEFAULT_CONFIG(TRUE).core_stock_apis]

NewSession ==
  [pc |-> "init", keys |-> {}, analysis_history |-> <<>>, current_analysis |-> NoneBundle,
   analysis_running |-> FALSE, config |-> NoRef]

\* Mutant of CopyDefaults: the session keeps DEFAULT_CONFIG itself.
CopyDefaultsAliased(heap, s) == [heap |-> heap, ref |-> DefaultRef]

\* DEFAULT_CONFIG.copy(): a new dictionary with the same values, the nested
\* mapping being the same object.
CopyDefaults(heap, s) == [heap |-> [heap EXCEPT ![Top(s)] = heap[DefaultRef]], ref |-> Top(s)]

\* config.update({...}) of create_sidebar: the keys of the dictionary are
\* rebound, data_vendors to a new mapping.
UpdateConfig(heap, ref, s, llm_provider, core_stock_vendor) ==
  [heap EXCEPT ![ref] = [@ EXCEPT !.llm_provider = llm_provider, !.data_vendors = Nested(s)],
               ![Nested(s)] = [Unallocated EXCEPT !.core_stock_apis = core_stock_vendor]]

\* The configuration a reference denotes, as the framework reads it.
ConfigValue(heap, ref) ==
  IF ref = NoRef THEN DEFAULT_CONFIG(FALSE)
  ELSE [llm_provider |-> heap[ref].llm_provider,
        core_stock_apis |-> heap[heap[ref].data_vendors].core_stock_apis]

\* What a session holds: its session state with the configuration read through.
SessionView(m, s) ==
  [keys |-> m.sessions[s].keys, analysis_history |-> m.sessions[s].analysis_history,
   current_analysis |-> m.sessions[s].current_analysis,
   analysis_running |-> m.sessions[s].analysis_running,
   config |-> ConfigValue(m.heap, m.sessions[s].config)]

InitSessions ==
  /\ app = "sessions"
  /\ available = TRUE
  /\ keys = {}
  /\ analysis_history = <<>>
  /\ current_analysis = NoneBundle
  /\ analysis_running = FALSE
  /\ config = DEFAULT_CONFIG(FALSE)
  /\ cur = NoRun
  /\ stopping = 0
  /\ ended = "none"
  /\ view = BlankView
  /\ gradio = GradioIdle
  /\ launcher = LauncherIdle
  /\ multi = [heap |-> [o \in Objects |-> CASE o = DefaultRef -> DefaultTop
                                            [] o = DefaultVendorsRef -> DefaultNested
                                            [] OTHER -> Unallocated],
              sessions |-> [s \in Sessions |-> NewSession],
              actor |-> "none"]

SessionFrame == UNCHANGED <<launcher, app, available, session, cur, stopping, ended, view, gradio>>

\* initialize_session_state in session s.
SessionInitialize(s) ==
  /\ app = "sessions"
  /\ multi.sessions[s].pc = "init"
  /\ LET old == multi.sessions[s]
         copy == CopyDefaults(multi.heap, s)
         first == "config" \notin old.keys
     IN multi' = [heap |-> IF first THEN copy.heap ELSE multi.heap,
                  sessions |-> [multi.sessions EXCEPT ![s] =
                     [old EXCEPT !.pc = "sidebar", !.keys = @ \cup SessionKeys,
                                 !.config = IF first THEN copy.ref ELSE @]],
                  actor |-> s]
  /\ SessionFrame

\* create_sidebar in session s.
SessionSidebar(s, llm_provider, core_stock_vendor) ==
  /\ app = "sessions"
  /\ multi.sessions[s].pc = "sidebar"
  /\ multi' = [heap |-> UpdateConfig(multi.heap, multi.sessions[s].config, s,
                                     llm_provider, core_stock_vendor),
               sessions |-> [multi.sessions EXCEPT ![s].pc = "form"],
               actor |-> s]
  /\ SessionFrame

\* The rest of a script run in which nothing was pressed.
SessionIdle(s) ==
  /\ app = "sessions"
  /\ multi.sessions[s].pc = "form"
  /\ multi' = [multi EXCEPT !.sessions[s].pc = "init", !.actor = s]
  /\ SessionFrame

\* Lines 594-596 in session s, up to the call of propagate.
SessionSubmit(s) ==
  /\ app = "sessions"
  /\ multi.sessions[s].pc = "form"
  /\ Len(multi.sessions[s].analysis_history) < MaxHistory
  /\ multi' = [multi EXCEPT !.sessions[s].pc = "propagate",
                            !.sessions[s].analysis_running = TRUE, !.actor = s]
  /\ SessionFrame

\* propagate returns in session s: lines 321-337 and 597.
SessionPropagateReturns(s, final_state, decision) ==
  /\ app = "sessions"
  /\ multi.sessions[s].pc = "propagate"
  /\ LET analysis_result ==
           [keys |-> BundleKeys, ticker |-> NVDA, trade_date |-> <<"2024-11-17">>,
            final_state |-> final_state, decision |-> decision,
            timestamp |-> Len(multi.sessions[s].analysis_history) + 1,
            selected_analysts |-> << <<"market">> >>]
     IN multi' = [multi EXCEPT !.sessions[s].pc = "init",
                               !.sessions[s].analysis_history = Append(@, analysis_result),
                               !.sessions[s].current_analysis = <<analysis_result>>,
                               !.sessions[s].analysis_running = FALSE, !.actor = s]
  /\ SessionFrame

\* propagate raises in session s: lines 339-342 and 597.
SessionPropagateRaises(s) ==
  /\ app = "sessions"
  /\ multi.sessions[s].pc = "propagate"
  /\ multi' = [multi EXCEPT !.sessions[s].pc = "init",
                            !.sessions[s].analysis_running = FALSE, !.actor = s]
  /\ SessionFrame

\* View Selected Analysis in session s.
SessionViewSelected(s, i) ==
  /\ app = "sessions"
  /\ multi.sessions[s].pc = "form"
  /\ i \in 1..Len(multi.sessions[s].analysis_history)
  /\ multi' = [multi EXCEPT !.sessions[s].pc = "init",
                            !.sessions[s].current_analysis =
                               <<multi.sessions[s].analysis_history[i]>>,
                            !.actor = s]
  /\ SessionFrame

\* Lines 30-33 of the Gradio handler: a copy of DEFAULT_CONFIG with keys rebound.
GradioConfig ==
  /\ app = "sessions"
  /\ multi' = [multi EXCEPT !.heap[GradioTop] =
                               [multi.heap[DefaultRef] EXCEPT !.deep_think_llm = "gpt-4o-mini"],
                            !.actor = "gradio"]
  /\ SessionFrame

NextSessions ==
  \/ \E s \in Sessions : SessionInitialize(s)
  \/ \E s \in Sessions, p \in Providers, v \in StockVendors : SessionSidebar(s, p, v)
  \/ \E s \in Sessions : SessionIdle(s)
  \/ \E s \in Sessions : SessionSubmit(s)
  \/ \E s \in Sessions, r \in FrameworkResults : SessionPropagateReturns(s, r[1], r[2])
  \/ \E s \in Sessions : SessionPropagateRaises(s)
  \/ \E s \in Sessions, i \in 1..MaxHistory : SessionViewSelected(s, i)
  \/ GradioConfig

SpecSessions == InitSessions /\ [][NextSessions]_vars

\* C16: a step leaves what every session other than the acting one holds as it
\* was, leaves DEFAULT_CONFIG and its data_vendors mapping as they were made, and
\* a session's first initialization gives it the original defaults.
C16_SessionIsolation ==
  [][/\ \A t \in Sessions \ {multi'.actor} : SessionView(multi', t) = SessionView(multi, t)
     /\ multi'.heap[DefaultRef] = DefaultTop
     /\ multi'.heap[DefaultVendorsRef] = DefaultNested
     /\ \A s \in Sessions :
          multi.sessions[s].keys = {} /\ multi'.sessions[s].keys /= {}
            => SessionView(multi', s).config = DEFAULT_CONFIG(TRUE)]_vars

\* Session s2 is initialized after s1 changed its configuration and stored a result.
C16_Witness ==
  /\ app = "sessions"
  /\ multi.actor = "s2"
  /\ multi.sessions["s2"].pc = "sidebar"
  /\ SessionView(multi, "s2").config = DEFAULT_CONFIG(TRUE)
  /\ SessionView(multi, "s1").config = [llm_provider |-> "anthropic", core_stock_apis |-> "alpha_vantage"]
  /\ Len(multi.sessions["s1"].analysis_history) = 1
  /\ multi.sessions["s2"].analysis_history = <<>>

----------------------------------------------------------------------------
(* The formatters *)

DigitValue(c) == CHOOSE d \in 0..9 : Digit(d) = c

RECURSIVE ParseNat(_)
ParseNat(s) == IF s = <<>> THEN 0 ELSE 10 * ParseNat(SubSeq(s, 1, Len(s) - 1)) + DigitValue(s[Len(s)])

\* The last character of a formatted amount when it is a unit suffix, else "".
SuffixOf(text) == IF text[Len(text)] \in {"K", "M", "B"} THEN text[Len(text)] ELSE ""

UnitOf(suffix) ==
  CASE suffix = "K" -> Thousand [] suffix = "M" -> Million [] suffix = "B" -> Billion
    [] OTHER -> 1

\* The amount between the "$" (and a sign) and the suffix, read in hundredths,
\* given that it has the shape digits "." digit digit.
ShownHundredths(text) ==
  LET from == IF text[2] = "-" THEN 3 ELSE 2
      to == IF SuffixOf(text) = "" THEN Len(text) ELSE Len(text) - 1
  IN 100 * ParseNat(SubSeq(text, from, to - 3)) + ParseNat(SubSeq(text, to - 1, to))

\* "$", an optional sign, digits, ".", two digits, an optional suffix.
CurrencyShape(text) ==
  LET from == IF text[2] = "-" THEN 3 ELSE 2
      to == IF SuffixOf(text) = "" THEN Len(text) ELSE Len(text) - 1
  IN /\ text[1] = "$"
     /\ to - from >= 3
     /\ text[to - 2] = "."
     /\ \A i \in (from..to) \ {to - 2} : \E d \in 0..9 : text[i] = Digit(d)

\* The unit is chosen by threshold and the amount shown is value / unit rounded
\* to two decimals.
CurrencyByThreshold ==
  LET text == view.currency
      unit == UnitOf(SuffixOf(text))
      step == unit \div 100
  IN /\ CurrencyShape(text)
     /\ SuffixOf(text) = (IF view.value >= Billion THEN "B"
                          ELSE IF view.value >= Million THEN "M"
                          ELSE IF view.value >= Thousand THEN "K" ELSE "")
     /\ (text[2] = "-") <=> view.value < 0
     /\ IF unit = 1
        THEN ShownHundredths(text) = 100 * (IF view.value < 0 THEN -view.value ELSE view.value)
        ELSE LET d == view.value - (ShownHundredths(text) \div 100) * unit
                        - (ShownHundredths(text) % 100) * step
             IN 2 * d <= step /\ 2 * d >= -step
     /\ view.value = 1500000000 => text = <<"$", "1", ".", "5", "0", "B">>
     /\ view.value = 2500 => text = <<"$", "2", ".", "5", "0", "K">>
     /\ view.value = 7 => text = <<"$", "7", ".", "0", "0">>

\* C18 as stated: the unit is chosen by threshold, the amount has two decimals
\* and a leading "$", and an amount shown with a suffix is below 1000.00.
C18_CurrencyAsStated ==
  cur.pc = "formatted" =>
    /\ CurrencyByThreshold
    /\ SuffixOf(view.currency) /= "" => ShownHundredths(view.currency) < 100000

\* C18 amended: the unit is chosen by threshold, the amount has two decimals and a
\* leading "$", and an amount shown with the suffix K or M is at most 1000.00,
\* which it is for the values that round up to the next threshold.
C18_CurrencyByThreshold ==
  cur.pc = "formatted" =>
    /\ CurrencyByThreshold
    /\ SuffixOf(view.currency) \in {"K", "M"} => ShownHundredths(view.currency) <= 100000
    /\ view.value = 999999 => view.currency = <<"$", "1", "0", "0", "0", ".", "0", "0", "K">>

C18_Witness ==
  /\ cur.pc = "formatted"
  /\ view.value = 999999999
  /\ view.currency = <<"$", "1", "0", "0", "0", ".", "0", "0", "M">>

----------------------------------------------------------------------------
(* The helpers and the result store *)

\* C19: a call of display_analysis_results (with get_stock_info and the chart
\* helpers it calls), of export_analysis_to_json or of the formatters leaves the
\* history, the current analysis and the flag as they were, and the bundle given
\* to it is afterwards the bundle it was given.
C19_HelpersAreReadOnly ==
  [][cur.pc = "call" /\ cur'.pc \in {"exported", "displayed", "formatted"} =>
       /\ UNCHANGED <<analysis_history, current_analysis, analysis_running>>
       /\ view'.rendered \/ cur'.pc /= "displayed" => view'.bundle = current_analysis']_vars

C19_Witness ==
  /\ cur.pc = "exported"
  /\ analysis_running
  /\ analysis_history = current_analysis
  /\ view.bundle = current_analysis
  /\ view.bundle[1].final_state["market_report"] = IntV(7)
  /\ view.json /= <<>>

----------------------------------------------------------------------------
(* The order of the steps of a submission *)

\* C20: the flag is true whenever a call of the framework is executing (it was
\* set before the constructor was called and is cleared only after the call has
\* ended and the bundle is stored), and when the flag has been cleared after a
\* success the bundle returned is the last entry of the history and is current.
C20_FlagCoversExternalCall ==
  /\ InFlight > 0 => analysis_running
  /\ cur.pc = "success" =>
       /\ ~analysis_running
       /\ analysis_history /= <<>>
       /\ current_analysis = <<analysis_history[Len(analysis_history)]>>

----------------------------------------------------------------------------
(* The current analysis and the history *)

\* The entries of a history.
Entries(history) == {history[i] : i \in 1..Len(history)}

\* C21: after every step the current analysis is None or an entry of the
\* history, and a step that changes it either appends the new current bundle to
\* the history (the success path) or makes an entry of the unchanged history
\* current and leaves the flag as it was (View Selected Analysis).
C21_CurrentIsHistoryEntry ==
  [][/\ current_analysis' = NoneBundle \/ current_analysis'[1] \in Entries(analysis_history')
     /\ current_analysis' /= current_analysis =>
          \/ analysis_history' = Append(analysis_history, current_analysis'[1])
          \/ /\ analysis_history' = analysis_history
             /\ analysis_running' = analysis_running
             /\ current_analysis'[1] \in Entries(analysis_history)]_vars

\* A run renders an older entry that View Selected Analysis made current.
C21_Witness ==
  /\ cur.pc = "history"
  /\ view.rendered
  /\ Len(analysis_history) = 2
  /\ analysis_history[1] /= analysis_history[2]
  /\ view.bundle = <<analysis_history[1]>>
  /\ current_analysis = <<analysis_history[1]>>

----------------------------------------------------------------------------
(* The order of the launcher's steps *)

\* C22: the server has been started only if streamlit_app.py was found and then
\* check_requirements returned True; a launcher that did not find the file or
\* whose requirements check failed has exited with status 1 without starting the
\* server (the requirements not being checked when the file is missing); and a
\* failed environment check is followed by the start of the server.
C22_ServerStartsAfterChecks ==
  /\ launcher.server_started =>
       launcher.app_exists /\ launcher.requirements = "passed"
  /\ launcher.requirements /= "unchecked" => launcher.app_exists
  /\ launcher.environment /= "unchecked" => launcher.requirements = "passed"
  /\ launcher.pc \notin {"none", "start"}
       /\ (~launcher.app_exists \/ launcher.requirements = "failed") =>
       /\ launcher.pc = "exited"
       /\ launcher.exit_code = 1
       /\ ~launcher.server_started
  /\ launcher.environment = "failed" =>
       /\ launcher.pc \in {"server", "running", "exited"}
       /\ launcher.pc /= "server" => launcher.server_started /\ launcher.port = ServerPort

C22_Witness ==
  /\ launcher.pc = "running"
  /\ launcher.server_started
  /\ launcher.environment = "failed"
  /\ launcher.missing_vars = <<"ALPHA_VANTAGE_API_KEY">>

\* Every required distribution is installed: the module it installs can be
\* imported.
AllInstalled ==
  \A i \in 1..Len(required_packages) : InstalledModule(required_packages[i]) \in launcher.modules

\* C23: check_requirements returns True exactly when the five required packages
\* are installed, python-dotenv being importable as dotenv; with the five
\* installed it reports no missing package and the launcher goes on to the server.
C23_RequirementsMetWhenInstalled ==
  launcher.requirements /= "unchecked" =>
    /\ launcher.requirements = "passed" <=> AllInstalled
    /\ AllInstalled =>
         /\ launcher.missing_packages = <<>>
         /\ launcher.pc = "exited" => launcher.server_started

====
